---- MODULE Spec2Model ----
(***************************************************************************)
(* A model of query_iinact.py: the websocket client that subscribes to the *)
(* IINACT combat feed and prints a DPS leaderboard.                        *)
(*                                                                         *)
(* Text, mapping keys included, is a sequence of one-character strings.    *)
(* A float is a record: a finite double held as its shortest decimal, an   *)
(* infinity or a NaN.                                                      *)
(***************************************************************************)
EXTENDS Integers, Sequences, FiniteSets, TLC

VARIABLES
    args,       \* the parsed command line (fixed for the run)
    stop,       \* the asyncio.Event set by the signal handler
    pc,         \* where main() is suspended
    raw,        \* the frame the loop received last
    ws,         \* the websocket session: "none", "open", "closed"
    sent,       \* the outbound frames, in order
    out,        \* what the last step wrote to stdout
    nrecv,      \* frames consumed by the receive loop so far
    ntimeouts,  \* receive timeouts so far
    ntables,    \* leaderboard tables written so far
    arg,        \* input of the helper under test (helper specifications)
    res         \* its result

vars == <<args, stop, pc, raw, ws, sent, out, nrecv, ntimeouts, ntables, arg, res>>

mainVars == <<args, stop, pc, raw, ws, sent, out, nrecv, ntimeouts, ntables>>

(***************************************************************************)
(* Bounds of the model.                                                    *)
(***************************************************************************)
MaxStrLen == 3      \* longest enumerated string handed to to_float
MaxRows == 3        \* longest enumerated Combatant mapping
MaxMsgs == 2        \* frames the server delivers to the receive loop
MaxTimeouts == 1    \* timeouts before cancellation

Min(a, b) == IF a < b THEN a ELSE b
Max(a, b) == IF a < b THEN b ELSE a

\* the text of n characters c
Rep(c, n) == [i \in 1..n |-> c]

(***************************************************************************)
(* Natural numbers of any size, as float() needs them: limbs of four       *)
(* decimal digits, least significant first, no leading zero limb; zero is  *)
(* the empty sequence.                                                     *)
(***************************************************************************)
Base == 10000

Limb(a, i) == IF i >= 1 /\ i <= Len(a) THEN a[i] ELSE 0

BNorm(a) ==
    IF \A i \in 1..Len(a) : a[i] = 0 THEN <<>>
    ELSE SubSeq(a, 1, Len(a) - (CHOOSE d \in 0..(Len(a) - 1) :
                                    /\ a[Len(a) - d] # 0
                                    /\ \A e \in 0..(d - 1) : a[Len(a) - e] = 0))

\* -1, 0 or 1 as a is less than, equal to or greater than b
BCmp(a, b) ==
    IF Len(a) # Len(b) THEN (IF Len(a) < Len(b) THEN -1 ELSE 1)
    ELSE IF a = b THEN 0
    ELSE LET n == Len(a)
             d == CHOOSE d \in 0..(n - 1) :
                     /\ a[n - d] # b[n - d]
                     /\ \A e \in 0..(d - 1) : a[n - e] = b[n - e]
         IN  IF a[n - d] < b[n - d] THEN -1 ELSE 1

BLe(a, b) == BCmp(a, b) <= 0
BLt(a, b) == BCmp(a, b) < 0

\* the carry into limb i of a + b: decided by the nearest lower limb whose sum
\* is not Base - 1
Carry(a, b, i) ==
    LET d == CHOOSE d \in 1..i :
                /\ d = i \/ Limb(a, i - d) + Limb(b, i - d) # Base - 1
                /\ \A e \in 1..(d - 1) : Limb(a, i - e) + Limb(b, i - e) = Base - 1
    IN  IF d < i /\ Limb(a, i - d) + Limb(b, i - d) >= Base THEN 1 ELSE 0

BAdd(a, b) ==
    BNorm([i \in 1..(Max(Len(a), Len(b)) + 1) |->
              (Limb(a, i) + Limb(b, i) + Carry(a, b, i)) % Base])

\* the borrow from limb i of a - b: decided by the nearest lower limb where the
\* two differ
Borrow(a, b, i) ==
    LET d == CHOOSE d \in 1..i :
                /\ d = i \/ Limb(a, i - d) # Limb(b, i - d)
                /\ \A e \in 1..(d - 1) : Limb(a, i - e) = Limb(b, i - e)
    IN  IF d < i /\ Limb(a, i - d) < Limb(b, i - d) THEN 1 ELSE 0

\* a - b for a >= b
BSub(a, b) ==
    BNorm([i \in 1..Len(a) |-> (Base + Limb(a, i) - Limb(b, i) - Borrow(a, b, i)) % Base])

\* a * Base^n
BShift(a, n) == IF a = <<>> THEN <<>> ELSE Rep(0, n) \o a

\* a * k for 0 <= k <= Base: the low and the high halves of the limb products
BMulSmall(a, k) ==
    BAdd(BNorm([i \in 1..Len(a) |-> (a[i] * k) % Base]),
         BShift(BNorm([i \in 1..Len(a) |-> (a[i] * k) \div Base]), 1))

RECURSIVE BMulRange(_, _, _, _)
\* a * (limbs lo..hi of b, at their place)
BMulRange(a, b, lo, hi) ==
    IF lo = hi THEN BShift(BMulSmall(a, b[lo]), lo - 1)
    ELSE BAdd(BMulRange(a, b, lo, (lo + hi) \div 2),
              BMulRange(a, b, (lo + hi) \div 2 + 1, hi))

\* a * b
BMul(a, b) == IF a = <<>> \/ b = <<>> THEN <<>> ELSE BMulRange(a, b, 1, Len(b))

RECURSIVE IPow(_, _)
IPow(b, n) == IF n = 0 THEN 1 ELSE b * IPow(b, n - 1)

RECURSIVE BPow2(_)
\* 2^k
BPow2(k) ==
    IF k <= 13 THEN <<IPow(2, k)>>
    ELSE BMul(BPow2(k \div 2), BPow2(k - k \div 2))

\* a * 2^k
BMulPow2(a, k) == BMul(a, BPow2(k))

\* a * 10^k
BMulPow10(a, k) == BShift(BMulSmall(a, IPow(10, k % 4)), k \div 4)

\* the number with the given decimal digits, most significant first
BFromDigits(ds) ==
    LET n == Len(ds)
        D(j) == IF j >= 1 THEN ds[j] ELSE 0
    IN  BNorm([i \in 1..((n + 3) \div 4) |->
                  D(n - 4 * (i - 1)) + 10 * D(n - 4 * (i - 1) - 1)
                  + 100 * D(n - 4 * (i - 1) - 2) + 1000 * D(n - 4 * (i - 1) - 3)])

\* leading zeros dropped
TrimLeft(ds) ==
    IF \A i \in 1..Len(ds) : ds[i] = 0 THEN <<>>
    ELSE SubSeq(ds, CHOOSE i \in 1..Len(ds) : ds[i] # 0 /\ \A j \in 1..(i - 1) : ds[j] = 0,
                Len(ds))

\* trailing zeros dropped
TrimRight(ds) ==
    IF \A i \in 1..Len(ds) : ds[i] = 0 THEN <<>>
    ELSE SubSeq(ds, 1, CHOOSE i \in 1..Len(ds) :
                           ds[i] # 0 /\ \A j \in (i + 1)..Len(ds) : ds[j] = 0)

\* the decimal digits of a, most significant first
BToDigits(a) ==
    LET n == 4 * Len(a)
    IN  TrimLeft([j \in 1..n |->
                     (a[(n - j) \div 4 + 1] \div IPow(10, (n - j) % 4)) % 10])

BOne == <<1>>

RECURSIVE LongDiv(_, _, _)
\* the i decimal digits of a \div b and the remainder, for a < b * 10^i
LongDiv(a, b, i) ==
    IF i = 0 THEN [q |-> <<>>, r |-> a]
    ELSE LET bi == BMulPow10(b, i - 1)
             d == CHOOSE d \in 0..9 : BLe(BMulSmall(bi, d), a) /\ BLt(a, BMulSmall(bi, d + 1))
             rest == LongDiv(BSub(a, BMulSmall(bi, d)), b, i - 1)
         IN  [q |-> <<d>> \o rest.q, r |-> rest.r]

(***************************************************************************)
(* Floats.  A finite double is held as the shortest decimal that reads     *)
(* back as the same double, which is what repr prints: a sign, the         *)
(* significant digits ds (no leading and no trailing zero) and the         *)
(* exponent ex, the value being 0.ds * 10^ex; zero has no digits.          *)
(* Comparisons follow IEEE 754 (every comparison with NaN is false).       *)
(***************************************************************************)
Dec(neg, ds, ex) == [k |-> "fin", neg |-> neg, ds |-> ds, ex |-> ex]
Zero == Dec(FALSE, <<>>, 0)
NegZero == Dec(TRUE, <<>>, 0)
PosInf == [k |-> "inf", neg |-> FALSE]
NegInf == [k |-> "inf", neg |-> TRUE]
NaN == [k |-> "nan"]
\* to_float left by an exception instead of a value
Raised == [k |-> "raise"]

IsFinite(f) == f.k = "fin"
IsZero(f) == f.k = "fin" /\ f.ds = <<>>

\* -1, 0, 1: the sign of a float that is not NaN
Sign(f) == IF IsZero(f) THEN 0 ELSE IF f.neg THEN -1 ELSE 1

\* a < b for finite a and b above zero
MagLt(a, b) ==
    IF a.ex # b.ex THEN a.ex < b.ex
    ELSE IF a.ds = b.ds THEN FALSE
    ELSE LET n == Min(Len(a.ds), Len(b.ds))
         IN  IF SubSeq(a.ds, 1, n) = SubSeq(b.ds, 1, n) THEN Len(a.ds) < Len(b.ds)
             ELSE LET i == CHOOSE i \in 1..n :
                             a.ds[i] # b.ds[i] /\ \A j \in 1..(i - 1) : a.ds[j] = b.ds[j]
                  IN  a.ds[i] < b.ds[i]

\* a < b on floats
FloatLt(a, b) ==
    CASE a.k = "nan" \/ b.k = "nan" -> FALSE
      [] Sign(a) # Sign(b) -> Sign(a) < Sign(b)
      [] Sign(a) = 0 -> FALSE
      [] a.k = "inf" \/ b.k = "inf" ->
            IF Sign(a) = 1 THEN a.k = "fin" /\ b.k = "inf" ELSE a.k = "inf" /\ b.k = "fin"
      [] OTHER -> IF Sign(a) = 1 THEN MagLt(a, b) ELSE MagLt(b, a)

\* a == b on floats
FloatEq(a, b) ==
    CASE a.k = "nan" \/ b.k = "nan" -> FALSE
      [] IsZero(a) \/ IsZero(b) -> IsZero(a) /\ IsZero(b)
      [] OTHER -> a = b

Two52 == BMulPow2(BOne, 52)
Two53 == BMulPow2(BOne, 53)

\* 2^k * b <= a, for any integer k
Pow2Le(a, b, k) ==
    IF k >= 0 THEN BLe(BMulPow2(b, k), a) ELSE BLe(b, BMulPow2(a, 0 - k))

\* 10^d <= m * 2^e, for any integers d and e
Pow10Le(m, e, d) ==
    BLe(BMulPow2(BMulPow10(BOne, Max(d, 0)), Max(0 - e, 0)),
        BMulPow10(BMulPow2(m, Max(e, 0)), Max(0 - d, 0)))

\* the k with 2^k <= a / b < 2^(k+1), where 10^(ex-1) <= a / b < 10^ex
BinaryExponent(a, b, ex) ==
    CHOOSE k \in (((ex - 1) * 3321928) \div 1000000 - 1)..((ex * 3321929) \div 1000000 + 1) :
        Pow2Le(a, b, k) /\ ~Pow2Le(a, b, k + 1)

\* the 16 digits qr.q and the remainder qr.r of a division by den, rounded to the
\* nearest integer (ties to even), as a double m * 2^e
Rounded(qr, den, e) ==
    LET c == BCmp(BAdd(qr.r, qr.r), den)
        m == IF c > 0 \/ (c = 0 /\ qr.q[16] % 2 = 1) THEN BAdd(BFromDigits(qr.q), BOne)
             ELSE BFromDigits(qr.q)
    IN  IF m = Two53 THEN [m |-> Two52, e |-> e + 1] ELSE [m |-> m, e |-> e]

\* the double nearest to a / b with the exponent e
Scaled(a, b, e) ==
    Rounded(LongDiv(IF e < 0 THEN BMulPow2(a, 0 - e) ELSE a,
                    IF e < 0 THEN b ELSE BMulPow2(b, e), 16),
            IF e < 0 THEN b ELSE BMulPow2(b, e), e)

\* the double nearest to a / b (ties to even) as m * 2^e with m < 2^53 and
\* e >= -1074, where 10^(ex-1) <= a / b < 10^ex; m is <<>> for zero, e is above
\* 971 for an overflow
ToBinary(a, b, ex) == Scaled(a, b, Max(BinaryExponent(a, b, ex) - 52, -1074))

\* ds + 1 on decimal digits
Successor(ds) == BToDigits(BAdd(BFromDigits(ds), BOne))

RECURSIVE ShortestFrom(_, _, _)
\* the choice between the two decimals of p digits that enclose a double: down
\* (the digits head) and upper (their successor).  Neither in the rounding
\* interval: more digits are needed; else the one in the interval, the nearer
\* to the double if both are, the even one on a tie.
ShortestOf(g, p, dex, head, down, upper) ==
    LET downIn == IF g.closed THEN BLe(g.low, down) ELSE BLt(g.low, down)
        upIn == IF g.closed THEN BLe(upper, g.high) ELSE BLt(upper, g.high)
        c == BCmp(BSub(upper, g.v), BSub(g.v, down))
    IN  IF ~downIn /\ ~upIn THEN ShortestFrom(g, p + 1, dex)
        ELSE IF downIn /\ (~upIn \/ c > 0 \/ (c = 0 /\ head[p] % 2 = 0))
        THEN [ds |-> TrimRight(head), ex |-> dex]
        ELSE [ds |-> TrimRight(Successor(head)),
              ex |-> IF Len(Successor(head)) > p THEN dex + 1 ELSE dex]

\* the shortest decimal of at least p digits in the rounding interval of a
\* double, the nearest to it if there are two.  g holds, as integers of one
\* grid, the double v, the ends low and high of its interval, the unit u of the
\* 17th digit, the 17 digits q of v \div u and whether the ends belong to the
\* interval.
ShortestFrom(g, p, dex) ==
    ShortestOf(g, p, dex, SubSeq(g.q, 1, p),
               BMul(g.u, BFromDigits(SubSeq(g.q, 1, p) \o Rep(0, 17 - p))),
               BAdd(BMul(g.u, BFromDigits(SubSeq(g.q, 1, p) \o Rep(0, 17 - p))),
                    BMulPow10(g.u, 17 - p)))

\* the d with 10^(d-1) <= m * 2^e < 10^d, which is hint - 1, hint or hint + 1
DecimalExponent(m, e, hint) ==
    CHOOSE d \in (hint - 1)..(hint + 1) : Pow10Le(m, e, d - 1) /\ ~Pow10Le(m, e, d)

\* x quarters of 2^e, on the grid of the integers that holds them and the 17th
\* digit of a number below 10^dex
OnGrid(x, e, dex) == BMulPow10(BMulPow2(x, Max(e - 2, 0)), Max(0, 17 - dex))

\* the unit of the 17th digit on that grid
GridUnit(e, dex) == BMulPow2(BMulPow10(BOne, dex - 17 + Max(0, 17 - dex)), Max(2 - e, 0))

\* repr's digits of the double m * 2^e, which lies in 10^(dex-1)..10^dex: the
\* interval that rounds to it reaches half way to its neighbours, the lower one
\* being half as far below a power of two
ShortestAt(m, e, dex) ==
    ShortestFrom([v |-> OnGrid(BMulSmall(m, 4), e, dex),
                  low |-> OnGrid(BSub(BMulSmall(m, 4),
                                      IF m = Two52 /\ e > -1074 THEN <<1>> ELSE <<2>>),
                                 e, dex),
                  high |-> OnGrid(BAdd(BMulSmall(m, 4), <<2>>), e, dex),
                  u |-> GridUnit(e, dex),
                  q |-> LongDiv(OnGrid(BMulSmall(m, 4), e, dex), GridUnit(e, dex), 17).q,
                  closed |-> m[1] % 2 = 0],
                 1, dex)

\* repr's digits of the double m * 2^e, which lies within 10^(hint-2)..10^(hint+1)
Shortest(m, e, hint) == ShortestAt(m, e, DecimalExponent(m, e, hint))

\* the float of sign neg with the digits s
Signed(neg, s) == Dec(neg, s.ds, s.ex)

\* the float of sign neg that is the double b.m * 2^b.e, about 10^ex
FromBinary(neg, b, ex) ==
    IF b.m = <<>> THEN Dec(neg, <<>>, 0)
    ELSE IF b.e > 971 THEN [k |-> "inf", neg |-> neg]
    ELSE Signed(neg, Shortest(b.m, b.e, ex))

\* the double nearest to 0.ds * 10^ex, for digits ds without leading or
\* trailing zeros.  Up to 15 digits are their own shortest decimal when the
\* value is well inside the normal range.
DecimalToDouble(neg, ds, ex) ==
    IF ds = <<>> THEN Dec(neg, <<>>, 0)
    ELSE IF ex >= 310 THEN [k |-> "inf", neg |-> neg]
    ELSE IF ex <= -324 THEN Dec(neg, <<>>, 0)
    ELSE IF Len(ds) <= 15 /\ ex >= -300 /\ ex <= 300 THEN Dec(neg, ds, ex)
    ELSE FromBinary(neg,
                    ToBinary(BMulPow10(BFromDigits(ds), Max(ex - Len(ds), 0)),
                             BMulPow10(BOne, Max(Len(ds) - ex, 0)), ex),
                    ex)

(***************************************************************************)
(* JSON values as json.loads gives them.                                   *)
(***************************************************************************)
JNull == [t |-> "null"]
JInt(n) == [t |-> "int", n |-> n]
\* the integer 10^400, beyond the range of a double
JBigInt == [t |-> "bigint"]
JBool(b) == [t |-> "bool", b |-> b]
JFloat(f) == [t |-> "float", f |-> f]
JStr(s) == [t |-> "str", s |-> s]
\* a JSON array: its elements in order
JList(items) == [t |-> "list", items |-> items]
\* a JSON object: its items in insertion order, each [key, val], the keys
\* distinct texts
JObj(items) == [t |-> "obj", items |-> items]

Item(k, v) == [key |-> k, val |-> v]

IsMapping(v) == v.t = "obj"

\* bool(v), as `x or {}` takes it
Truthy(v) ==
    CASE v.t = "null" -> FALSE
      [] v.t = "int" -> v.n # 0
      [] v.t = "bigint" -> TRUE
      [] v.t = "bool" -> v.b
      [] v.t = "float" -> ~IsZero(v.f)
      [] v.t = "str" -> v.s # <<>>
      [] v.t = "list" -> v.items # <<>>
      [] v.t = "obj" -> v.items # <<>>

(***************************************************************************)
(* str() and repr(), for text of printable ASCII characters and line       *)
(* breaks.                                                                 *)
(***************************************************************************)
Digits == {"0", "1", "2", "3", "4", "5", "6", "7", "8", "9"}

DigitVal(c) ==
    CASE c = "0" -> 0 [] c = "1" -> 1 [] c = "2" -> 2 [] c = "3" -> 3
      [] c = "4" -> 4 [] c = "5" -> 5 [] c = "6" -> 6 [] c = "7" -> 7
      [] c = "8" -> 8 [] c = "9" -> 9

DigitChar(n) == CHOOSE c \in Digits : DigitVal(c) = n

\* the characters of a run of digits
DigitChars(ds) == [i \in 1..Len(ds) |-> DigitChar(ds[i])]

RECURSIVE DecimalOf(_)
\* the decimal digits of a natural number
DecimalOf(n) ==
    IF n < 10 THEN <<DigitChar(n)>>
    ELSE Append(DecimalOf(n \div 10), DigitChar(n % 10))

\* repr of an int
IntRepr(n) == IF n < 0 THEN <<"-">> \o DecimalOf(0 - n) ELSE DecimalOf(n)

\* repr of a float: the shortest digits, with an exponent when the decimal
\* point would stand more than 16 places right or 4 places left of them
FloatRepr(f) ==
    CASE f.k = "nan" -> <<"n", "a", "n">>
      [] f.k = "inf" -> (IF f.neg THEN <<"-">> ELSE <<>>) \o <<"i", "n", "f">>
      [] f.k = "fin" ->
            LET sign == IF f.neg THEN <<"-">> ELSE <<>>
                ds == DigitChars(f.ds)
                n == Len(ds)
                e == f.ex - 1
                mag == IF e < 0 THEN 0 - e ELSE e
            IN  sign \o
                (IF n = 0 THEN <<"0", ".", "0">>
                 ELSE IF f.ex > 16 \/ f.ex < -3
                 THEN <<ds[1]>> \o (IF n > 1 THEN <<".">> \o Tail(ds) ELSE <<>>)
                      \o <<"e", IF e < 0 THEN "-" ELSE "+">>
                      \o (IF mag < 10 THEN <<"0">> ELSE <<>>) \o DecimalOf(mag)
                 ELSE IF f.ex <= 0 THEN <<"0", ".">> \o Rep("0", 0 - f.ex) \o ds
                 ELSE IF f.ex < n THEN SubSeq(ds, 1, f.ex) \o <<".">> \o SubSeq(ds, f.ex + 1, n)
                 ELSE ds \o Rep("0", f.ex - n) \o <<".", "0">>)

\* repr of a str: in double quotes when it holds ' and no ", else in single
\* quotes; the backslash, the quote and the line break are escaped
StrRepr(text) ==
    LET has(c) == \E i \in 1..Len(text) : text[i] = c
        quote == IF has("'") /\ ~has("\"") THEN "\"" ELSE "'"
        esc(c) == IF c = "\\" THEN <<"\\", "\\">>
                  ELSE IF c = "\n" THEN <<"\\", "n">>
                  ELSE IF c = quote THEN <<"\\", c>>
                  ELSE <<c>>
        inner[i \in 0..Len(text)] == IF i = 0 THEN <<>> ELSE inner[i - 1] \o esc(text[i])
    IN  <<quote>> \o inner[Len(text)] \o <<quote>>

RECURSIVE Join(_, _)
\* sep.join(parts)
Join(sep, parts) ==
    IF parts = <<>> THEN <<>>
    ELSE IF Len(parts) = 1 THEN parts[1]
    ELSE parts[1] \o sep \o Join(sep, Tail(parts))

RECURSIVE Repr(_)
\* repr(v)
Repr(v) ==
    CASE v.t = "null" -> <<"N", "o", "n", "e">>
      [] v.t = "bool" -> IF v.b THEN <<"T", "r", "u", "e">> ELSE <<"F", "a", "l", "s", "e">>
      [] v.t = "int" -> IntRepr(v.n)
      [] v.t = "bigint" -> <<"1">> \o Rep("0", 400)
      [] v.t = "float" -> FloatRepr(v.f)
      [] v.t = "str" -> StrRepr(v.s)
      [] v.t = "list" ->
            <<"[">> \o Join(<<",", " ">>, [i \in 1..Len(v.items) |-> Repr(v.items[i])])
                    \o <<"]">>
      [] v.t = "obj" ->
            <<"{">> \o Join(<<",", " ">>,
                                 [i \in 1..Len(v.items) |->
                                     StrRepr(v.items[i].key) \o <<":", " ">>
                                         \o Repr(v.items[i].val)])
                    \o <<"}">>

\* str(v)
Str(v) == IF v.t = "str" THEN v.s ELSE Repr(v)

(***************************************************************************)
(* to_float.                                                               *)
(***************************************************************************)
\* NUM_RE = [^0-9.+-] matches every character that is NOT one of these
NumChars == Digits \cup {".", "+", "-"}

NUM_RE(c) == c \notin NumChars

\* NUM_RE.sub('', s)
StripNum(s) == SelectSeq(s, LAMBDA c : ~NUM_RE(c))

IndexOfDot(s) ==
    IF \E i \in 1..Len(s) : s[i] = "."
    THEN CHOOSE i \in 1..Len(s) : s[i] = "." /\ \A j \in 1..(i - 1) : s[j] # "."
    ELSE 0

\* float(s) for a string of NumChars: [sign] digits [. [digits]] or [sign] . digits;
\* anything else is a ValueError.
ParseFloat(s) ==
    LET signed == s # <<>> /\ s[1] \in {"+", "-"}
        body == IF signed THEN Tail(s) ELSE s
        dot == IndexOfDot(body)
        ip == IF dot = 0 THEN body ELSE SubSeq(body, 1, dot - 1)
        fp == IF dot = 0 THEN <<>> ELSE SubSeq(body, dot + 1, Len(body))
        digitsOnly(t) == \A i \in 1..Len(t) : t[i] \in Digits
        ok == digitsOnly(ip) /\ digitsOnly(fp) /\ Len(ip) + Len(fp) > 0
        all == [i \in 1..(Len(ip) + Len(fp)) |-> DigitVal((ip \o fp)[i])]
        lead == Len(all) - Len(TrimLeft(all))
    IN  IF ~ok THEN [k |-> "ValueError"]
        ELSE DecimalToDouble(signed /\ s[1] = "-", TrimRight(TrimLeft(all)), Len(ip) - lead)

\* float(n) for an int n of at most 15 digits, which a double holds exactly
FloatOfInt(n) ==
    Dec(n < 0,
        TrimRight([i \in 1..Len(DecimalOf(IF n < 0 THEN 0 - n ELSE n)) |->
                      DigitVal(DecimalOf(IF n < 0 THEN 0 - n ELSE n)[i])]),
        IF n = 0 THEN 0 ELSE Len(DecimalOf(IF n < 0 THEN 0 - n ELSE n)))

\* lines 20-21: the ValueError of float(s) is caught
OrZero(p) == IF p.k = "ValueError" THEN Zero ELSE p

\* to_float: lines 12-21
to_float(s) ==
    CASE s.t = "null" -> Zero
      [] s.t \in {"int", "bool"} ->
            FloatOfInt(IF s.t = "int" THEN s.n ELSE IF s.b THEN 1 ELSE 0)
      [] s.t = "bigint" -> Raised
      [] s.t = "float" -> s.f
      [] OTHER ->
            IF StripNum(Str(s)) = <<>> THEN Zero ELSE OrZero(ParseFloat(StripNum(Str(s))))

(***************************************************************************)
(* Mappings.                                                               *)
(***************************************************************************)
UpperCase ==
    <<"A", "B", "C", "D", "E", "F", "G", "H", "I", "J", "K", "L", "M",
      "N", "O", "P", "Q", "R", "S", "T", "U", "V", "W", "X", "Y", "Z">>

LowerCase ==
    <<"a", "b", "c", "d", "e", "f", "g", "h", "i", "j", "k", "l", "m",
      "n", "o", "p", "q", "r", "s", "t", "u", "v", "w", "x", "y", "z">>

LowerOf(c) ==
    IF \E i \in 1..26 : UpperCase[i] = c
    THEN LowerCase[CHOOSE i \in 1..26 : UpperCase[i] = c]
    ELSE c

\* str.lower()
Lower(k) == [i \in 1..Len(k) |-> LowerOf(k[i])]

\* k in d
HasKey(d, k) == \E i \in 1..Len(d.items) : d.items[i].key = k

\* d[k]
Lookup(d, k) == d.items[CHOOSE i \in 1..Len(d.items) : d.items[i].key = k].val

\* the first kk of d.keys() with kk.lower() == k.lower(), or 0
FirstCI(d, k) ==
    IF \E i \in 1..Len(d.items) : Lower(d.items[i].key) = Lower(k)
    THEN CHOOSE i \in 1..Len(d.items) :
            /\ Lower(d.items[i].key) = Lower(k)
            /\ \A j \in 1..(i - 1) : Lower(d.items[j].key) # Lower(k)
    ELSE 0

RECURSIVE safe_get_exactOnly(_, _, _)
\* the pass that ignores case is left out
safe_get_exactOnly(d, keys, default) ==
    IF keys = <<>> THEN default
    ELSE IF HasKey(d, Head(keys)) THEN Lookup(d, Head(keys))
    ELSE safe_get_exactOnly(d, Tail(keys), default)

RECURSIVE safe_get(_, _, _)
\* safe_get(d, *keys, default=default) for a mapping d
safe_get(d, keys, default) ==
    IF keys = <<>> THEN default
    ELSE LET k == Head(keys)
         IN  IF HasKey(d, k) THEN Lookup(d, k)
             ELSE IF FirstCI(d, k) # 0 THEN d.items[FirstCI(d, k)].val
             ELSE safe_get(d, Tail(keys), default)

(***************************************************************************)
(* list.sort(key=..., reverse=True) as CPython runs it on fewer than 64    *)
(* elements: reverse, find the leading run, binary insertion, reverse.     *)
(* Each element is [key, row]; only keys are compared, with <.             *)
(***************************************************************************)
Reverse(s) == [i \in 1..Len(s) |-> s[Len(s) + 1 - i]]

RECURSIVE RunLen(_, _, _)
\* the length of the run of s that starts at 1 and has reached position n
RunLen(s, n, desc) ==
    IF n = Len(s) THEN n
    ELSE IF desc = FloatLt(s[n + 1].key, s[n].key) THEN RunLen(s, n + 1, desc)
    ELSE n

\* count_run: the leading run and whether it is strictly descending
count_run(s) ==
    IF Len(s) < 2 THEN [n |-> Len(s), desc |-> FALSE]
    ELSE LET desc == FloatLt(s[2].key, s[1].key)
         IN  [n |-> RunLen(s, 2, desc), desc |-> desc]

RECURSIVE BinPos(_, _, _, _)
\* where binarysort puts pivot among the sorted s[l..r-1]
BinPos(s, pivot, l, r) ==
    IF l >= r THEN l
    ELSE LET p == l + ((r - l) \div 2)
         IN  IF FloatLt(pivot.key, s[p].key) THEN BinPos(s, pivot, l, p)
             ELSE BinPos(s, pivot, p + 1, r)

InsertAt(s, pos, x) == SubSeq(s, 1, pos - 1) \o <<x>> \o SubSeq(s, pos, Len(s))

RECURSIVE binarysort(_, _)
\* s[1..start-1] is sorted; insert s[start], s[start+1], ... one by one
binarysort(s, start) ==
    IF start > Len(s) THEN s
    ELSE LET pivot == s[start]
             pos == BinPos(s, pivot, 1, start)
             placed == InsertAt(SubSeq(s, 1, start - 1), pos, pivot)
         IN  binarysort(placed \o SubSeq(s, start + 1, Len(s)), start + 1)

\* the ascending sort of the keyed list s
SortAscending(s) ==
    IF Len(s) < 2 THEN s
    ELSE LET run == count_run(s)
             head == SubSeq(s, 1, run.n)
             fixed == (IF run.desc THEN Reverse(head) ELSE head)
                        \o SubSeq(s, run.n + 1, Len(s))
         IN  binarysort(fixed, run.n + 1)

\* list.sort(reverse=True) on the keyed list s
SortReverse(s) == Reverse(SortAscending(Reverse(s)))

(***************************************************************************)
(* Text and the key spellings the program looks up.                        *)
(***************************************************************************)
T_CombatData == JStr(<<"C", "o", "m", "b", "a", "t", "D", "a", "t", "a">>)
T_LogLine == JStr(<<"L", "o", "g", "L", "i", "n", "e">>)
T_Other == JStr(<<"P", "i", "n", "g">>)

K_type == <<"t", "y", "p", "e">>
K_Encounter == <<"E", "n", "c", "o", "u", "n", "t", "e", "r">>
K_Combatant == <<"C", "o", "m", "b", "a", "t", "a", "n", "t">>
K_line == <<"l", "i", "n", "e">>
K_rawLine == <<"r", "a", "w", "L", "i", "n", "e">>

K_CurrentZoneName == <<"C", "u", "r", "r", "e", "n", "t", "Z", "o", "n", "e", "N", "a", "m", "e">>
K_zone == <<"z", "o", "n", "e">>
K_title == <<"t", "i", "t", "l", "e">>
K_duration == <<"d", "u", "r", "a", "t", "i", "o", "n">>
K_encdps == <<"e", "n", "c", "d", "p", "s">>
K_ENCDPS == <<"E", "N", "C", "D", "P", "S">>
K_DPS == <<"D", "P", "S">>
K_dps == <<"d", "p", "s">>
K_damage == <<"d", "a", "m", "a", "g", "e">>
K_damageTotal == <<"d", "a", "m", "a", "g", "e", "T", "o", "t", "a", "l">>
K_Damage == <<"D", "a", "m", "a", "g", "e">>
K_crithitPct == <<"c", "r", "i", "t", "h", "i", "t", "%">>
K_CritPct == <<"C", "r", "i", "t", "%">>
K_crithit == <<"c", "r", "i", "t", "h", "i", "t">>
K_DirectHitPct == <<"D", "i", "r", "e", "c", "t", "H", "i", "t", "P", "c", "t">>
K_DirectHitPc == <<"D", "i", "r", "e", "c", "t", "H", "i", "t", "%">>
K_DirectHit == <<"D", "i", "r", "e", "c", "t", "H", "i", "t">>
K_DirectPc == <<"D", "i", "r", "e", "c", "t", "%">>
K_DHPc == <<"D", "H", "%">>
K_deaths == <<"d", "e", "a", "t", "h", "s">>
K_Deaths == <<"D", "e", "a", "t", "h", "s">>
K_Job == <<"J", "o", "b">>
K_job == <<"j", "o", "b">>

\* d.get(k, default)
Get(d, k, default) == IF HasKey(d, k) THEN Lookup(d, k) ELSE default

EmptyObj == JObj(<<>>)
EmptyStr == JStr(<<>>)

\* x or {}
OrEmpty(v) == IF Truthy(v) THEN v ELSE EmptyObj

KeySet(d) == {d.items[i].key : i \in 1..Len(d.items)}

(***************************************************************************)
(* What one pass of the loop body does with a frame: the lines it writes   *)
(* and how it leaves the body ("continue", "break", or "raise" when an     *)
(* exception escapes main).                                                *)
(***************************************************************************)
Did(outs, ctl) == [outs |-> outs, ctl |-> ctl]

\* the literal of line 116
Headers == <<"Name", "Job", "ENCDPS", "Damage", "Crit%", "DH%", "Deaths">>

\* the Damage cell is left out of the row
RowOf_noDamage(pname, stats) ==
    << JStr(pname),
       safe_get(stats, <<K_Job, K_job>>, EmptyStr),
       safe_get(stats, <<K_encdps, K_ENCDPS, K_dps>>, JStr(<<"0">>)),
       safe_get(stats, <<K_crithitPct, K_CritPct, K_crithit>>, EmptyStr),
       safe_get(stats, <<K_DirectHitPct, K_DirectHitPc, K_DirectHit, K_DirectPc, K_DHPc>>,
                EmptyStr),
       safe_get(stats, <<K_deaths, K_Deaths>>, JStr(<<"0">>)) >>

\* lines 103-109: the row of one combatant
RowOf(pname, stats) ==
    << JStr(pname),
       safe_get(stats, <<K_Job, K_job>>, EmptyStr),
       safe_get(stats, <<K_encdps, K_ENCDPS, K_dps>>, JStr(<<"0">>)),
       safe_get(stats, <<K_damage, K_Damage>>, JStr(<<"0">>)),
       safe_get(stats, <<K_crithitPct, K_CritPct, K_crithit>>, EmptyStr),
       safe_get(stats, <<K_DirectHitPct, K_DirectHitPc, K_DirectHit, K_DirectPc, K_DHPc>>,
                EmptyStr),
       safe_get(stats, <<K_deaths, K_Deaths>>, JStr(<<"0">>)) >>

\* lines 98-109, for a mapping comb whose values are all mappings
BuildRows(comb) == [i \in 1..Len(comb.items) |-> RowOf(comb.items[i].key, comb.items[i].val)]

\* the sort key of line 110
SortKey(r) == to_float(r[3])

Keyed(rows) == [i \in 1..Len(rows) |-> [key |-> SortKey(rows[i]), row |-> rows[i]]]

Unkeyed(s) == [i \in 1..Len(s) |-> s[i].row]

\* line 110: rows.sort(key=lambda r: to_float(r[2]), reverse=True)
SortRows(rows) == Unkeyed(SortReverse(Keyed(rows)))

\* rows[:n]
Slice(rows, n) ==
    IF n >= 0 THEN SubSeq(rows, 1, Min(n, Len(rows)))
    ELSE SubSeq(rows, 1, Max(0, Len(rows) + n))

\* lines 111-112: if args.top: rows = rows[:args.top]
Truncate(rows, top) == IF top # 0 THEN Slice(rows, top) ELSE rows

\* lines 110-112
Leaderboard(rows, top) == Truncate(SortRows(rows), top)

\* lines 86-92: the encounter header
HeaderOf(enc) ==
    [p |-> "header",
     zone |-> safe_get(enc, <<K_CurrentZoneName, K_zone>>, EmptyStr),
     name |-> safe_get(enc, <<K_title, K_Encounter>>, EmptyStr),
     dur |-> safe_get(enc, <<K_duration>>, JStr(<<"?">>)),
     dps |-> safe_get(enc, <<K_encdps, K_ENCDPS, K_DPS>>, JStr(<<"?">>)),
     dmg |-> safe_get(enc, <<K_damage, K_damageTotal>>, JStr(<<"?">>))]

\* lines 97-120, after the header has been written
OnCombatants(msg, a, outs) ==
    LET comb == OrEmpty(Get(msg, K_Combatant, EmptyObj))
    IN  IF ~IsMapping(comb) THEN Did(outs, "raise")
        ELSE IF \E i \in 1..Len(comb.items) : ~IsMapping(comb.items[i].val)
        THEN Did(outs, "raise")
        ELSE LET rows == BuildRows(comb)
             IN  IF \E i \in 1..Len(rows) : SortKey(rows[i]) = Raised
                 THEN Did(outs, "raise")
                 ELSE IF a.sniff /\ comb.items # <<>>
                 THEN Did(Append(outs, [p |-> "combkeys",
                                        keys |-> KeySet(comb.items[1].val)]), "break")
                 ELSE Did(Append(outs, [p |-> "table", headers |-> Headers,
                                        rows |-> Leaderboard(rows, a.top)]),
                          IF a.once THEN "break" ELSE "continue")

\* lines 82-120: a CombatData event
OnCombatData(msg, a) ==
    IF a.raw_once THEN Did(<<[p |-> "raw", msg |-> msg]>>, "break")
    ELSE LET enc == OrEmpty(Get(msg, K_Encounter, EmptyObj))
         IN  IF ~IsMapping(enc) THEN Did(<<>>, "raise")
             ELSE OnCombatants(msg, a,
                     <<HeaderOf(enc)>> \o
                     (IF a.sniff THEN <<[p |-> "enckeys", keys |-> KeySet(enc)]>>
                      ELSE <<>>))

\* x or y
Or(x, y) == IF Truthy(x) THEN x ELSE y

LogLineCut == 160

\* lines 122-124: a LogLine event with --show-logline
OnLogLine(msg) ==
    LET line == Or(Or(Get(msg, K_line, JNull), Get(msg, K_rawLine, JNull)), EmptyStr)
    IN  IF line.t # "str" THEN Did(<<>>, "raise")
        ELSE Did(<<[p |-> "logline",
                    text |-> SubSeq(line.s, 1, Min(LogLineCut, Len(line.s)))
                             \o (IF Len(line.s) > LogLineCut THEN <<".", ".", ".">>
                                 ELSE <<>>)]>>, "continue")

NonJsonCut == 200

\* lines 77-79: json.loads raises JSONDecodeError
OnNonJson(frame) == Did(<<[p |-> "nonjson", len |-> Min(frame.len, NonJsonCut)]>>, "continue")

\* lines 81-126: a decoded frame
OnJson(msg, a) ==
    IF ~IsMapping(msg) THEN Did(<<>>, "raise")
    ELSE LET t == Get(msg, K_type, JNull)
         IN  IF t = T_CombatData THEN OnCombatData(msg, a)
             ELSE IF t = T_LogLine /\ a.show_logline THEN OnLogLine(msg)
             ELSE Did(<<>>, "continue")

\* lines 75-126: the loop body after a frame has been received.  json.loads
\* returns a value, raises JSONDecodeError, or raises an exception that line 77
\* does not catch and that leaves main.
OnFrame(frame, a) ==
    CASE frame.k = "nonjson" -> OnNonJson(frame)
      [] frame.k = "raises" -> Did(<<>>, "raise")
      [] frame.k = "json" -> OnJson(frame.v, a)

(***************************************************************************)
(* The command line.                                                       *)
(***************************************************************************)
\* --top is absent from the command line
Unset == [given |-> FALSE, n |-> 0]
\* --top n
Top(n) == [given |-> TRUE, n |-> n]

\* line 48: default=8
DefaultTop == 8

TopArgs == {Unset, Top(-1), Top(0), Top(1), Top(2)}

\* lines 45-52: parse_args
ParseArgs(once, topArg, show_logline, sniff, raw_once) ==
    [once |-> once,
     top |-> IF topArg.given THEN topArg.n ELSE DefaultTop,
     top_given |-> topArg.given,
     show_logline |-> show_logline,
     sniff |-> sniff,
     raw_once |-> raw_once]

ArgsSet ==
    {ParseArgs(o, t, l, s, r) : o \in BOOLEAN, t \in TopArgs, l \in BOOLEAN,
                                s \in BOOLEAN, r \in BOOLEAN}

(***************************************************************************)
(* The frames the server may send.                                         *)
(***************************************************************************)
\* a frame of n characters on which json.loads raises JSONDecodeError
NonJsonFrame(n) == [k |-> "nonjson", len |-> n]
\* a frame on which json.loads raises another exception: UnicodeDecodeError for
\* bytes that are not text, RecursionError for nesting too deep, ValueError for
\* an integer literal beyond the digit limit
LoadsRaises(exc) == [k |-> "raises", exc |-> exc]
\* a frame that json.loads decodes to v
JsonFrame(v) == [k |-> "json", v |-> v]

\* a combatant's stats with the given ENCDPS value under the given key
Stats(k, dps) == JObj(<<Item(k, dps), Item(K_Job, JStr(<<"W", "H", "M">>))>>)

Names == <<"A", "B", "C", "D", "E", "F", "G", "H", "I", "J">>

\* the Combatant mapping whose i-th player has the i-th of the dps values
Combatants(dpss) ==
    JObj([i \in 1..Len(dpss) |-> Item(<<Names[i]>>, Stats(K_encdps, dpss[i]))])

Encounter ==
    JObj(<<Item(K_title, JStr(<<"D", "u", "m", "m", "y">>)),
           Item(K_ENCDPS, JStr(<<"1", "5", "0", "0">>))>>)

CombatData(enc, comb) ==
    JsonFrame(JObj(<<Item(K_type, T_CombatData), Item(K_Encounter, enc),
                     Item(K_Combatant, comb)>>))

D(s) == JStr(s)

\* more rows than the default --top
NineRows ==
    <<D(<<"1">>), D(<<"2">>), D(<<"3">>), D(<<"4">>), D(<<"5">>), D(<<"6">>),
      D(<<"7">>), D(<<"8">>), D(<<"9">>)>>

CombatFrames ==
    { CombatData(Encounter, Combatants(<<D(<<"1", "0">>), D(<<"3", "0">>), D(<<"2", "0">>)>>)),
      CombatData(Encounter, Combatants(<<D(<<"5">>), D(<<"7", "%">>), D(<<"5", ".", "0">>)>>)),
      CombatData(Encounter, Combatants(NineRows)),
      CombatData(Encounter, Combatants(<<D(<<"5">>), JFloat(NaN), D(<<"7">>)>>)),
      CombatData(Encounter, Combatants(<<D(<<"5">>), JBigInt>>)),
      CombatData(Encounter, Combatants(<<JList(<<JInt(1)>>), D(<<"7">>),
                                         JObj(<<Item(<<"a">>, JInt(9))>>)>>)),
      CombatData(Encounter, Combatants(<<D(<<"0", ".", "0", "0", "0", "4">>),
                                         D(<<"0", ".", "0", "0", "0", "5">>),
                                         D(<<"3", "0", "0", "0", "0", "0", "0">>)>>)),
      CombatData(Encounter, EmptyObj),
      CombatData(JNull, JNull),
      CombatData(JList(<<JInt(1)>>), Combatants(<<D(<<"5">>)>>)),
      CombatData(Encounter, JList(<<JInt(1)>>)),
      CombatData(Encounter,
                 JObj(<<Item(<<"A">>, Stats(K_encdps, D(<<"5">>))), Item(<<"B">>, JNull)>>)),
      JsonFrame(JObj(<<Item(K_type, T_CombatData)>>)) }

LogFrames ==
    { JsonFrame(JObj(<<Item(K_type, T_LogLine), Item(K_line, JStr(Rep("x", 5)))>>)),
      JsonFrame(JObj(<<Item(K_type, T_LogLine),
                       Item(K_line, JStr(Rep("x", LogLineCut + 1)))>>)),
      JsonFrame(JObj(<<Item(K_type, T_LogLine), Item(K_rawLine, JStr(Rep("y", 5)))>>)),
      JsonFrame(JObj(<<Item(K_type, T_LogLine), Item(K_line, JInt(5))>>)) }

OtherFrames ==
    { NonJsonFrame(8), NonJsonFrame(NonJsonCut + 1),
      JsonFrame(JObj(<<Item(K_type, T_Other)>>)),
      JsonFrame(EmptyObj),
      JsonFrame(JList(<<>>)),
      LoadsRaises("UnicodeDecodeError"),
      LoadsRaises("RecursionError"),
      LoadsRaises("ValueError") }

Frames == CombatFrames \cup LogFrames \cup OtherFrames

\* OnFrame, tabulated over the command lines and the frames
Handled == [a \in ArgsSet |-> [frame \in Frames |-> OnFrame(frame, a)]]

IsCombatData(frame) ==
    /\ frame.k = "json"
    /\ IsMapping(frame.v)
    /\ Get(frame.v, K_type, JNull) = T_CombatData

IsLogLine(frame) ==
    /\ frame.k = "json"
    /\ IsMapping(frame.v)
    /\ Get(frame.v, K_type, JNull) = T_LogLine

\* an object whose type is neither CombatData nor LogLine
IsOtherEvent(frame) ==
    /\ frame.k = "json"
    /\ IsMapping(frame.v)
    /\ Get(frame.v, K_type, JNull) \notin {T_CombatData, T_LogLine}

(***************************************************************************)
(* main(): one action per stretch between two suspension points (the       *)
(* awaits of lines 60, 62, 63, 66 and 71, and the __aexit__ that the async *)
(* with of line 60 awaits when the block is left).  out holds the lines    *)
(* written in the last stretch.  A send or a recv that raises leaves the   *)
(* block from the suspension point it was awaited at.  While __aexit__ is  *)
(* awaited main is suspended with the session still open: pc is "aexit"    *)
(* when the block was left by break or by the end of the loop, "aexit_exc" *)
(* when an exception left it.                                              *)
(***************************************************************************)
GetLanguage == [call |-> "getLanguage", events |-> <<>>]
Subscribe == [call |-> "subscribe", events |-> <<"CombatData", "LogLine">>]

Running == pc \notin {"exit", "error"}

\* the block of line 60 has been left and its __aexit__ is awaited
Leaving == pc \in {"aexit", "aexit_exc"}

NoFrame == [k |-> "none"]

Idle == [h |-> "none"]
Pending == [done |-> FALSE]

Init ==
    /\ args \in ArgsSet
    /\ stop = FALSE
    /\ pc = "connect"
    /\ raw = NoFrame
    /\ ws = "none"
    /\ sent = <<>>
    /\ out = <<>>
    /\ nrecv = 0
    /\ ntimeouts = 0
    /\ ntables = 0
    /\ arg = Idle
    /\ res = Pending

Tables(outs) == Cardinality({i \in 1..Len(outs) : outs[i].p = "table"})

\* lines 55-56: the handler of SIGINT and SIGTERM
_sig ==
    /\ Running
    /\ stop' = TRUE
    /\ UNCHANGED <<args, pc, raw, ws, sent, out, nrecv, ntimeouts, ntables, arg, res>>

\* lines 60-62: the connection is established and announced; main suspends in
\* the send of getLanguage
Connect ==
    /\ pc = "connect"
    /\ ws' = "open"
    /\ pc' = "send_lang"
    /\ out' = <<[p |-> "connected"]>>
    /\ UNCHANGED <<args, stop, raw, sent, nrecv, ntimeouts, ntables, arg, res>>

\* line 60: websockets.connect raises; nothing was opened
ConnectFails ==
    /\ pc = "connect"
    /\ pc' = "error"
    /\ out' = <<>>
    /\ UNCHANGED <<args, stop, raw, ws, sent, nrecv, ntimeouts, ntables, arg, res>>

\* both requests are written before the reply is read
SendGetLanguage_andSubscribe ==
    /\ pc = "send_lang"
    /\ out' = <<>>
    /\ sent' = sent \o <<GetLanguage, Subscribe>>
    /\ pc' = "await_lang"
    /\ UNCHANGED <<args, stop, raw, ws, nrecv, ntimeouts, ntables, arg, res>>

\* lines 62-63: getLanguage is sent; main suspends in the recv of the reply
SendGetLanguage ==
    /\ pc = "send_lang"
    /\ out' = <<>>
    /\ sent' = Append(sent, GetLanguage)
    /\ pc' = "await_lang"
    /\ UNCHANGED <<args, stop, raw, ws, nrecv, ntimeouts, ntables, arg, res>>

\* lines 63-66: the reply arrives and is printed as it is; main suspends in the
\* send of subscribe
RecvLanguage(frame) ==
    /\ pc = "await_lang"
    /\ out' = <<[p |-> "lang", reply |-> frame]>>
    /\ pc' = "send_sub"
    /\ UNCHANGED <<args, stop, raw, ws, sent, nrecv, ntimeouts, ntables, arg, res>>

\* lines 66-67: subscribe is sent and the loop is reached
SendSubscribe ==
    /\ pc = "send_sub"
    /\ out' = <<[p |-> "subscribed"]>>
    /\ sent' = Append(sent, Subscribe)
    /\ pc' = "loop"
    /\ UNCHANGED <<args, stop, raw, ws, nrecv, ntimeouts, ntables, arg, res>>

\* the loop condition does not look at the flag
LoopTop_ignoresStop ==
    /\ pc = "loop"
    /\ out' = <<>>
    /\ pc' = "wait"
    /\ UNCHANGED <<args, stop, raw, ws, sent, nrecv, ntimeouts, ntables, arg, res>>

\* line 69: the loop condition; leaving the loop leaves the async with block
LoopTop ==
    /\ pc = "loop"
    /\ out' = <<>>
    /\ pc' = IF stop THEN "aexit" ELSE "wait"
    /\ UNCHANGED <<args, stop, raw, ws, sent, nrecv, ntimeouts, ntables, arg, res>>

\* where the loop body leaves main suspended: at the top of the loop, or in the
\* __aexit__ of line 60 when a break or an exception leaves the block
After(ctl) ==
    CASE ctl = "continue" -> "loop"
      [] ctl = "break" -> "aexit"
      [] ctl = "raise" -> "aexit_exc"

\* lines 71, 75-126: a frame arrives within the timeout and is handled
Recv(frame) ==
    /\ pc = "wait"
    /\ nrecv < MaxMsgs
    /\ LET did == Handled[args][frame]
       IN  /\ out' = did.outs
           /\ ntables' = ntables + Tables(did.outs)
           /\ pc' = After(did.ctl)
    /\ raw' = frame
    /\ nrecv' = nrecv + 1
    /\ UNCHANGED <<args, stop, ws, sent, ntimeouts, arg, res>>

\* the TimeoutError is not caught and leaves main
Timeout_fatal ==
    /\ pc = "wait"
    /\ ntimeouts < MaxTimeouts \/ stop
    /\ out' = <<>>
    /\ ntimeouts' = ntimeouts + 1
    /\ pc' = "aexit_exc"
    /\ UNCHANGED <<args, stop, raw, ws, sent, nrecv, ntables, arg, res>>

\* lines 72-74: 60 s pass without a frame
Timeout ==
    /\ pc = "wait"
    /\ ntimeouts < MaxTimeouts \/ stop
    /\ out' = <<[p |-> "timeout"]>>
    /\ ntimeouts' = ntimeouts + 1
    /\ pc' = "loop"
    /\ UNCHANGED <<args, stop, raw, ws, sent, nrecv, ntables, arg, res>>

\* the lost session is replaced by a new one
ConnectionLost_reconnect ==
    /\ pc \in {"send_lang", "await_lang", "send_sub", "wait"}
    /\ pc' = "connect"
    /\ ws' = "closed"
    /\ out' = <<>>
    /\ UNCHANGED <<args, stop, raw, sent, nrecv, ntimeouts, ntables, arg, res>>

\* a send or a recv raises ConnectionClosed: the exception leaves the block
ConnectionLost ==
    /\ pc \in {"send_lang", "await_lang", "send_sub", "wait"}
    /\ pc' = "aexit_exc"
    /\ out' = <<>>
    /\ UNCHANGED <<args, stop, raw, ws, sent, nrecv, ntimeouts, ntables, arg, res>>

\* __aexit__ returns and main ends, but the session is left open
Close_leak ==
    /\ Leaving
    /\ pc' = (IF pc = "aexit" THEN "exit" ELSE "error")
    /\ out' = <<>>
    /\ UNCHANGED <<args, stop, raw, ws, sent, nrecv, ntimeouts, ntables, arg, res>>

\* line 60: __aexit__ closes the session and returns; main returns, or the
\* exception that left the block leaves main
Close ==
    /\ Leaving
    /\ ws' = "closed"
    /\ pc' = (IF pc = "aexit" THEN "exit" ELSE "error")
    /\ out' = <<>>
    /\ UNCHANGED <<args, stop, raw, sent, nrecv, ntimeouts, ntables, arg, res>>

Next ==
    \/ _sig
    \/ Connect
    \/ ConnectFails
    \/ SendGetLanguage
    \/ \E frame \in Frames : RecvLanguage(frame)
    \/ SendSubscribe
    \/ LoopTop
    \/ \E frame \in Frames : Recv(frame)
    \/ Timeout
    \/ ConnectionLost
    \/ Close

Spec == Init /\ [][Next]_vars

\* The event loop runs main whenever it can; the 60 s timer of wait_for always
\* fires.  Nothing obliges the server to send a frame or the user to send a signal.
Fairness ==
    /\ WF_vars(Connect \/ ConnectFails)
    /\ WF_vars(SendGetLanguage)
    /\ WF_vars(SendSubscribe)
    /\ WF_vars(LoopTop)
    /\ WF_vars(Timeout)
    /\ WF_vars(Close)

FairSpec == Spec /\ Fairness

(***************************************************************************)
(* The helpers on their own: each specification draws an input and applies *)
(* the helper once; main is not running.                                   *)
(***************************************************************************)
MainIdle ==
    /\ args = ParseArgs(FALSE, Unset, FALSE, FALSE, FALSE)
    /\ stop = FALSE
    /\ pc = "connect"
    /\ raw = NoFrame
    /\ ws = "none"
    /\ sent = <<>>
    /\ out = <<>>
    /\ nrecv = 0
    /\ ntimeouts = 0
    /\ ntables = 0

Result(v) == [done |-> TRUE, val |-> v]

RECURSIVE SeqsUpTo(_, _)
\* the sequences over S of length at most n
SeqsUpTo(S, n) ==
    IF n = 0 THEN {<<>>}
    ELSE LET shorter == SeqsUpTo(S, n - 1)
         IN  shorter \cup {Append(q, x) : q \in {r \in shorter : Len(r) = n - 1}, x \in S}

\* the characters of the enumerated to_float strings
FloatAlphabet == {"0", "1", "5", ".", "-", "+", ",", "%"}

\* the strings of the documentation; strings of more digits than a double
\* holds; strings of 309 and 310 digits
FloatSamples ==
    { <<"1", "2", ".", "5", "%">>,
      <<"1", ",", "2", "3", "4", ".", "5", "%">>,
      <<"1", ".", "2", ".", "3">>,
      <<"-", "3", ".", "2">>,
      <<"a", "b", "c">>,
      <<"1", "e", "5">>,
      <<"0", ".", "0", "0", "0", "5">>,
      <<"2", ".", "9", "9", "9", "9">>,
      <<"3", "0", "0", "0", "0", "0", "0">>,
      <<"0", ".", "1">> \o Rep("0", 15) \o <<"5", "5", "5">>,
      <<"9", "0", "0", "7", "1", "9", "9", "2", "5", "4", "7", "4", "0", "9", "9", "3">>,
      Rep("9", 309),
      Rep("1", 310) }

\* 1.5, 1500.0, 1.5e-07
FloatValues ==
    {Dec(FALSE, <<1, 5>>, 1), Dec(FALSE, <<1, 5>>, 4), Dec(FALSE, <<1, 5>>, -6),
     NegZero, PosInf, NegInf, NaN}

FloatInputs ==
    {JNull, JInt(7), JInt(-2), JInt(0), JBigInt, JBool(TRUE), JBool(FALSE)}
    \cup {JFloat(f) : f \in FloatValues}
    \cup {JList(<<JFloat(f)>>) : f \in FloatValues}
    \cup {JList(<<>>), JList(<<JInt(1)>>), JList(<<JInt(1), JStr(<<"2", ".", "5">>)>>),
          JList(<<JNull>>), JList(<<JBigInt>>),
          JObj(<<Item(<<"a">>, JInt(1))>>), JObj(<<Item(<<"-", "1">>, JBool(TRUE))>>)}
    \cup {JStr(x) : x \in SeqsUpTo(FloatAlphabet, MaxStrLen) \cup FloatSamples}

InitFloat == MainIdle /\ arg \in FloatInputs /\ res = Pending

ToFloatStep ==
    /\ ~res.done
    /\ res' = Result(to_float(arg))
    /\ UNCHANGED <<mainVars, arg>>

SpecFloat == InitFloat /\ [][ToFloatStep]_vars

MaxKeys == 2        \* most keys of an enumerated payload
MaxCands == 2       \* most candidates of an enumerated safe_get call

\* "Encdps"
K_Encdps == <<"E", "n", "c", "d", "p", "s">>

GetKeys == {K_encdps, K_ENCDPS, K_Encdps, K_dps, K_DPS}

Distinct(q) == \A i, j \in 1..Len(q) : i # j => q[i] # q[j]

\* the payloads: distinct keys in every order, the i-th key holding the number i
Payloads ==
    {JObj([i \in 1..Len(q) |-> Item(q[i], JInt(i))]) :
        q \in {r \in SeqsUpTo(GetKeys, MaxKeys) : Distinct(r)}}

GetDefault == JStr(<<"?">>)

GetInputs == [d : Payloads, keys : SeqsUpTo(GetKeys, MaxCands)]

InitGet == MainIdle /\ arg \in GetInputs /\ res = Pending

SafeGetStep ==
    /\ ~res.done
    /\ res' = Result(safe_get(arg.d, arg.keys, GetDefault))
    /\ UNCHANGED <<mainVars, arg>>

SpecGet == InitGet /\ [][SafeGetStep]_vars

\* the ENCDPS values of the enumerated Combatant mappings
DpsVals ==
    {D(<<"5">>), D(<<"5", ".", "0">>), D(<<"5", ".", "0", "0", "0", "1">>),
     JList(<<JInt(6)>>), JNull, JFloat(NaN), JBigInt}

RenderInputs ==
    [dpss : SeqsUpTo(DpsVals, MaxRows) \cup {NineRows},
     args : {ParseArgs(FALSE, t, FALSE, FALSE, FALSE) : t \in TopArgs}]

InitRender == MainIdle /\ arg \in RenderInputs /\ res = Pending

\* the rows of the enumerated Combatant mapping, before line 110
InputRows(x) == BuildRows(Combatants(x.dpss))

\* lines 82-120 on the CombatData event whose Combatant mapping is enumerated: the
\* lines written and how the loop body is left
RenderStep ==
    /\ ~res.done
    /\ res' = Result(OnCombatData(CombatData(Encounter, Combatants(arg.dpss)).v, arg.args))
    /\ UNCHANGED <<mainVars, arg>>

SpecRender == InitRender /\ [][RenderStep]_vars

(***************************************************************************)
(* format_table.  Text is a sequence of characters; the result is the one  *)
(* text that "\n".join returns.                                            *)
(***************************************************************************)
MaxCols == 2        \* most columns of an enumerated table
MaxTableRows == 2   \* most rows of an enumerated table

\* the text is not padded
ljust_none(text, w) == text

\* text.ljust(w)
ljust(text, w) == text \o Rep(" ", Max(0, w - Len(text)))

MaxOf(S) == CHOOSE m \in S : \A x \in S : x <= m

\* lines 33-36, for rows of len(headers) cells each
ColW(rows, headers) ==
    [i \in 1..Len(headers) |->
        MaxOf({Len(headers[i])} \cup {Len(Str(rows[r][i])) : r \in 1..Len(rows)})]

\* lines 32-42, for rows of len(headers) cells each
format_table(rows, headers) ==
    LET colw == ColW(rows, headers)
        cols == 1..Len(headers)
        head == Join(<<" ", "|", " ">>, [i \in cols |-> ljust(headers[i], colw[i])])
        rule == Join(<<"-", "+", "-">>, [i \in cols |-> Rep("-", colw[i])])
        body == [r \in 1..Len(rows) |->
                    Join(<<" ", "|", " ">>, [i \in cols |-> ljust(Str(rows[r][i]), colw[i])])]
    IN  Join(<<"\n">>, <<head, rule>> \o body)

HeaderTexts == {<<"N">>, <<"D", "P", "S">>}

Cells == {JStr(<<"A", "l">>), JNull}

\* the tables of every shape over the two header texts and the two cells
TableShapes ==
    UNION {[rows : SeqsUpTo([1..Len(h) -> Cells], MaxTableRows), headers : {h}] :
              h \in SeqsUpTo(HeaderTexts, MaxCols)}

\* the table of the documentation, tables with numbers and booleans, and tables
\* with a line break inside a cell or a header
TableSamples ==
    { [rows |-> << <<JStr(<<"A", "l", "i", "c", "e">>), JStr(<<"1", "2", ".", "3">>)>>,
                   <<JStr(<<"B", "o", "b">>), JStr(<<"5">>)>> >>,
       headers |-> << <<"N", "a", "m", "e">>, <<"D", "P", "S">> >>],
      [rows |-> << <<JInt(12), JBool(TRUE)>>, <<JInt(-7), JBool(FALSE)>>,
                   <<JInt(0), JStr(<<>>)>> >>,
       headers |-> << <<"N">>, <<>> >>],
      [rows |-> << <<JStr(<<"a", "\n", "b">>)>> >>, headers |-> << <<"N">> >>],
      [rows |-> << <<JStr(<<"A", "l">>)>> >>, headers |-> << <<"N", "\n">> >>] }

TableInputs == TableShapes \cup TableSamples

InitTable == MainIdle /\ arg \in TableInputs /\ res = Pending

TableStep ==
    /\ ~res.done
    /\ res' = Result(format_table(arg.rows, arg.headers))
    /\ UNCHANGED <<mainVars, arg>>

SpecTable == InitTable /\ [][TableStep]_vars

(***************************************************************************)
(* The receive loop.                                                       *)
(***************************************************************************)
Terminated == pc \in {"exit", "error"}

\* this step is the loop consuming a frame
RecvStep == nrecv' = nrecv + 1

\* this step is a timeout of the loop
TimeoutStep == ntimeouts' = ntimeouts + 1

\* C1: a frame that json.loads does not decode costs one diagnostic line and
\* nothing else: the loop goes back to its top with the session open, nothing is
\* sent, no table is written, and the command line and the stop flag (all that
\* the handling of the next frame depends on) are as they were.
C1_NonJsonTolerated ==
    [][ (RecvStep /\ raw'.k \in {"nonjson", "raises"}) =>
          /\ Len(out') = 1
          /\ out'[1].p = "nonjson"
          /\ out'[1].len <= NonJsonCut
          /\ pc' = "loop"
          /\ ws' = "open"
          /\ sent' = sent
          /\ ntables' = ntables
          /\ args' = args
          /\ stop' = stop ]_vars

\* C2: with the stop flag set, the loop never starts a wait; a wait that was under
\* way when the flag was set ends with one frame handled or one timeout notice
\* (or with the connection lost, which leaves the block); the top of the loop then
\* leaves the block, and when its __aexit__ returns the session is closed and main
\* has ended.  So a flag set before the loop is entered means no frame is ever
\* handled.
C2_StopEndsLoop ==
    [][ /\ (stop /\ pc # "wait") =>
              /\ pc' # "wait"
              /\ nrecv' = nrecv
              /\ ntimeouts' = ntimeouts
        /\ (stop /\ pc = "wait" /\ pc' # pc) =>
              /\ pc' \in {"loop", "aexit", "aexit_exc"}
              /\ \/ (nrecv' + ntimeouts') = (nrecv + ntimeouts) + 1
                 \/ /\ nrecv' = nrecv
                    /\ ntimeouts' = ntimeouts
                    /\ pc' = "aexit_exc"
        /\ (stop /\ pc = "loop" /\ pc' # pc) => pc' = "aexit"
        /\ (pc = "aexit" /\ pc' # pc) => (pc' = "exit" /\ ws' = "closed") ]_vars

\* the flag was set during the one wait of the run: its timeout was the last thing
\* the loop did
C2_Witness ==
    /\ stop
    /\ pc = "exit"
    /\ ws = "closed"
    /\ nrecv = 0
    /\ ntimeouts = MaxTimeouts + 1

\* C3: once the signal has been raised with the session open, main ends.
C3_CancelBounded == (stop /\ ws = "open") ~> Terminated

\* C4: the frames sent are getLanguage, then subscribe, and no others; subscribe is
\* sent only after the one inbound frame that follows getLanguage has been
\* consumed, which is printed and not handled as an event; the loop handles frames
\* only after subscribe, and is entered in the step that sends it.
C4_Handshake ==
    /\ [](/\ sent \in {<<>>, <<GetLanguage>>, <<GetLanguage, Subscribe>>}
          /\ (pc \in {"loop", "wait", "aexit", "exit"} \/ nrecv > 0 \/ ntables > 0)
                => sent = <<GetLanguage, Subscribe>>
          /\ pc \in {"connect", "send_lang"} => sent = <<>>
          /\ pc \in {"await_lang", "send_sub"} => sent = <<GetLanguage>>)
    /\ [][ /\ sent' # sent =>
                \/ /\ pc = "send_lang"
                   /\ sent' = <<GetLanguage>>
                   /\ pc' = "await_lang"
                \/ /\ pc = "send_sub"
                   /\ sent' = <<GetLanguage, Subscribe>>
                   /\ pc' = "loop"
                   /\ out' = <<[p |-> "subscribed"]>>
                   /\ nrecv' = 0
                   /\ ntables' = 0
                   /\ ws' = "open"
           /\ (pc # "send_sub" /\ pc' = "send_sub") =>
                /\ pc = "await_lang"
                /\ Len(out') = 1
                /\ out'[1].p = "lang"
                /\ nrecv' = 0
                /\ ntables' = 0 ]_vars

\* --once was given and the handshake is complete: the loop is entered whatever
\* the reply to getLanguage was
C4_Witness ==
    /\ pc = "loop"
    /\ nrecv = 0
    /\ ntimeouts = 0
    /\ args.once
    /\ out = <<[p |-> "subscribed"]>>
    /\ sent = <<GetLanguage, Subscribe>>

\* C5: with --once and no diagnostic mode, the loop ends exactly when a CombatData
\* frame has been handled, with one table written; without --once (and without a
\* diagnostic mode) handling a CombatData frame never ends the loop; no other
\* frame and no timeout ends it.
C5_OnceExits ==
    [][ (~args.sniff /\ ~args.raw_once /\ ~stop /\ (RecvStep \/ TimeoutStep)) =>
          /\ (RecvStep /\ IsCombatData(raw') /\ args.once) =>
                (pc' = "aexit" /\ ntables' = 1)
          /\ (RecvStep /\ IsCombatData(raw') /\ ~args.once) => pc' = "loop"
          /\ (TimeoutStep \/ raw'.k # "json" \/ IsLogLine(raw') \/ IsOtherEvent(raw'))
                => pc' = "loop" ]_vars

\* C6: when main has ended, the session is not open: it is closed if it was ever
\* opened (frames were sent or received, or lines written), and never opened if
\* the connect failed.
C6_SessionReleased ==
    /\ Terminated => ws \in {"none", "closed"}
    /\ (Terminated /\ ws = "none") => (pc = "error" /\ sent = <<>> /\ nrecv = 0)
    /\ (Terminated /\ (pc = "exit" \/ sent # <<>> \/ nrecv > 0)) => ws = "closed"

\* an exception raised while a frame was handled has ended main
C6_Witness ==
    /\ pc = "error"
    /\ nrecv > 0
    /\ raw.k = "json"
    /\ ws = "closed"

(***************************************************************************)
(* The leaderboard.                                                        *)
(***************************************************************************)
\* a >= b on floats
FloatGe(a, b) ==
    CASE a.k = "nan" \/ b.k = "nan" -> FALSE
      [] OTHER -> ~FloatLt(a, b)

\* the rows of the table that the loop body wrote; none when it wrote no table
Rendered(did) ==
    IF \E i \in 1..Len(did.outs) : did.outs[i].p = "table"
    THEN did.outs[CHOOSE i \in 1..Len(did.outs) : did.outs[i].p = "table"].rows
    ELSE <<>>

\* rows are rows of input x, each at most once, and each has a DPS at least that
\* of every row of x that is not among them
AreHighest(x, rows) ==
    /\ \A i \in 1..Len(rows) : \E j \in 1..Len(x.dpss) : rows[i] = InputRows(x)[j]
    /\ \A i, k \in 1..Len(rows) : i # k => rows[i] # rows[k]
    /\ \A i \in 1..Len(rows) : \A j \in 1..Len(x.dpss) :
          (\A k \in 1..Len(rows) : rows[k] # InputRows(x)[j])
              => FloatGe(SortKey(rows[i]), SortKey(InputRows(x)[j]))

\* C7: for an event with R combatants and limit N, min(N, R) rows are rendered
\* when N is positive and they are the N highest by numeric DPS; all R rows are
\* rendered when N is 0 or --top is not given.
C7_TopN ==
    res.done =>
        LET R == Len(arg.dpss)
            N == arg.args.top
        IN  /\ (arg.args.top_given /\ N > 0) =>
                  /\ Len(Rendered(res.val)) = Min(N, R)
                  /\ AreHighest(arg, Rendered(res.val))
            /\ (~arg.args.top_given \/ N = 0) => Len(Rendered(res.val)) = R

\* the position in the Combatant mapping of the player of a row
InputPos(x, row) == CHOOSE i \in 1..Len(x.dpss) : JStr(<<Names[i]>>) = row[1]

\* C8: the rows of a table are in descending order of to_float(DPS), and rows of
\* equal DPS are in the order of the Combatant mapping.
C8_SortedStable ==
    res.done =>
        \A i, j \in 1..Len(Rendered(res.val)) :
            i < j =>
                /\ FloatGe(SortKey(Rendered(res.val)[i]), SortKey(Rendered(res.val)[j]))
                /\ FloatEq(SortKey(Rendered(res.val)[i]), SortKey(Rendered(res.val)[j]))
                      => InputPos(arg, Rendered(res.val)[i])
                           < InputPos(arg, Rendered(res.val)[j])

(***************************************************************************)
(* safe_get and to_float.                                                  *)
(***************************************************************************)
\* the candidates that are keys of the payload, spelled exactly
ExactHits(x) == {i \in 1..Len(x.keys) : HasKey(x.d, x.keys[i])}

\* the candidates that match a key of the payload when case is ignored
AnyHits(x) == {i \in 1..Len(x.keys) : FirstCI(x.d, x.keys[i]) # 0}

First(S) == CHOOSE i \in S : \A j \in S : i <= j

\* C9: if some candidate is a key of the payload, the result is the value under
\* the first such candidate; otherwise it is the value of the first candidate that
\* matches when case is ignored.
C9_ExactFirst ==
    res.done =>
        /\ ExactHits(arg) # {} => res.val = Lookup(arg.d, arg.keys[First(ExactHits(arg))])
        /\ (ExactHits(arg) = {} /\ AnyHits(arg) # {}) =>
              res.val = arg.d.items[FirstCI(arg.d, arg.keys[First(AnyHits(arg))])].val

\* what the documentation says to_float gives for a string
StatedFloat(str) ==
    IF StripNum(str) = <<>> THEN Zero ELSE OrZero(ParseFloat(StripNum(str)))

\* C10: to_float raises nothing and returns a finite number: 0.0 for null, the
\* cast for a number, the parse of the stripped text for a string and 0.0 when
\* that is empty or does not parse.
C10_FiniteNeverRaises ==
    res.done =>
        /\ res.val # Raised
        /\ IsFinite(res.val)
        /\ arg.t = "null" => res.val = Zero
        /\ arg.t = "str" => res.val = StatedFloat(arg.s)

(***************************************************************************)
(* Timeouts, diagnostic modes and ignored frames.                          *)
(***************************************************************************)
\* C11: a timeout writes the one notice and nothing else: the loop goes back to
\* its top with the session open, nothing is sent, no frame is consumed and no
\* table written; from the top the loop waits again unless the stop flag is set.
C11_TimeoutNotice ==
    [][ /\ TimeoutStep =>
              /\ out' = <<[p |-> "timeout"]>>
              /\ pc' = "loop"
              /\ ws' = "open"
              /\ sent' = sent
              /\ nrecv' = nrecv
              /\ ntables' = ntables
              /\ raw' = raw
        /\ (pc = "loop" /\ ~stop /\ pc' # pc) => (pc' = "wait" /\ ws' = "open") ]_vars

\* the loop waits again after a timeout
C11_Witness ==
    /\ pc = "wait"
    /\ ntimeouts = 1
    /\ nrecv = 0
    /\ ~stop
    /\ ws = "open"

\* a diagnostic mode is selected
Diagnostic == args.sniff \/ args.raw_once

\* C12: in a diagnostic mode the first CombatData event ends the run, whatever it
\* holds: no table is written for it and the loop does not go on to another frame.
C12_DiagnosticExits ==
    [][ (Diagnostic /\ RecvStep /\ IsCombatData(raw')) =>
          /\ Leaving'
          /\ ntables' = ntables ]_vars

\* the text of a LogLine event: line, else rawLine, else the empty text
LineOf(frame) ==
    Or(Or(Get(frame.v, K_line, JNull), Get(frame.v, K_rawLine, JNull)), EmptyStr)

\* line 124: the text cut to the limit, marked when something was cut
Cut(text) ==
    SubSeq(text, 1, Min(LogLineCut, Len(text)))
        \o (IF Len(text) > LogLineCut THEN <<".", ".", ".">> ELSE <<>>)

\* C13: an object of another type, and a LogLine event without --show-logline,
\* is passed over: nothing is written or sent and the loop goes back to its top;
\* with --show-logline every LogLine event writes exactly one line, its text cut
\* to 160 characters and marked only when it was longer.
C13_IgnoredOrLogged ==
    [][ RecvStep =>
          /\ (IsOtherEvent(raw') \/ (IsLogLine(raw') /\ ~args.show_logline)) =>
                (out' = <<>> /\ sent' = sent /\ pc' = "loop" /\ ws' = "open")
          /\ (IsLogLine(raw') /\ args.show_logline) =>
                /\ Len(out') = 1
                /\ out'[1].p = "logline"
                /\ LineOf(raw').t = "str"
                /\ out'[1].text = Cut(LineOf(raw').s)
                /\ pc' = "loop" ]_vars

\* the Encounter and Combatant of a CombatData frame, as lines 86 and 97 read them
EncOf(frame) == OrEmpty(Get(frame.v, K_Encounter, EmptyObj))
CombOf(frame) == OrEmpty(Get(frame.v, K_Combatant, EmptyObj))

\* the combatants whose stats are a mapping
GoodStats(comb) == {i \in 1..Len(comb.items) : IsMapping(comb.items[i].val)}

\* C15: a combatant whose stats are null or not a mapping is left out and the rest
\* of the event is rendered: no error, one table whose rows are combatants with
\* proper stats, and the loop goes on as for any CombatData event.
C15_BadStatsDropped ==
    [][ ( /\ RecvStep
          /\ IsCombatData(raw')
          /\ ~Diagnostic
          /\ IsMapping(EncOf(raw'))
          /\ IsMapping(CombOf(raw'))
          /\ GoodStats(CombOf(raw')) # 1..Len(CombOf(raw').items) ) =>
          /\ pc' # "aexit_exc"
          /\ ntables' = ntables + 1
          /\ \A i \in 1..Len(out') : out'[i].p = "table" =>
                Len(out'[i].rows) <= Cardinality(GoodStats(CombOf(raw'))) ]_vars

\* a decoded frame of a shape the loop does not expect
UnexpectedShape(frame) ==
    /\ frame.k = "json"
    /\ \/ ~IsMapping(frame.v)
       \/ /\ IsCombatData(frame)
          /\ \/ ~IsMapping(Get(frame.v, K_Encounter, JNull))
             \/ ~IsMapping(Get(frame.v, K_Combatant, JNull))
       \/ /\ IsLogLine(frame)
          /\ Get(frame.v, K_line, JNull).t # "str"

\* C16: a decoded frame of an unexpected shape never ends main with an error.
C16_ShapeTolerated ==
    [][ (RecvStep /\ UnexpectedShape(raw')) => pc' # "aexit_exc" ]_vars

(***************************************************************************)
(* The table.                                                              *)
(***************************************************************************)
\* the tables among the lines of the last step
TablesOf(outs) == {outs[i] : i \in {j \in 1..Len(outs) : outs[j].p = "table"}}

\* C14 as stated: every table has the six columns Name, Job, ENCDPS, Crit%, DH%,
\* Deaths, and every row one cell per column.
C14_Stated ==
    \A t \in TablesOf(out) :
        /\ t.headers = <<"Name", "Job", "ENCDPS", "Crit%", "DH%", "Deaths">>
        /\ \A i \in 1..Len(t.rows) : Len(t.rows[i]) = Len(t.headers)

\* C14: every table has the seven columns Name, Job, ENCDPS, Damage, Crit%, DH%,
\* Deaths, in this order, and every row has one cell per column.
C14_SevenColumns ==
    \A t \in TablesOf(out) :
        /\ t.headers = <<"Name", "Job", "ENCDPS", "Damage", "Crit%", "DH%", "Deaths">>
        /\ \A i \in 1..Len(t.rows) : Len(t.rows[i]) = Len(t.headers)

\* a table of three rows has been written in the base mode
C14_Witness ==
    /\ ~Diagnostic
    /\ \E t \in TablesOf(out) : Len(t.rows) = 3

\* C17: safe_get gives the default exactly when no candidate matches a key of the
\* payload, spelled exactly or with case ignored (so for an empty payload and for
\* no candidates); otherwise it gives a value stored in the payload.
C17_DefaultOrStored ==
    res.done =>
        /\ res.val = GetDefault <=> AnyHits(arg) = {}
        /\ AnyHits(arg) # {} => \E i \in 1..Len(arg.d.items) : res.val = arg.d.items[i].val

\* a stored value was found through a key that matches only when case is ignored
C17_Witness ==
    /\ res.done
    /\ ExactHits(arg) = {}
    /\ AnyHits(arg) # {}
    /\ res.val # GetDefault

RECURSIVE Split(_)
\* the lines of a text
Split(text) ==
    IF \A i \in 1..Len(text) : text[i] # "\n" THEN <<text>>
    ELSE LET i == CHOOSE j \in 1..Len(text) :
                     text[j] = "\n" /\ \A k \in 1..(j - 1) : text[k] # "\n"
         IN  <<SubSeq(text, 1, i - 1)>> \o Split(SubSeq(text, i + 1, Len(text)))

\* the width the documentation gives column i
StatedWidth(x, i) ==
    LET lens == {Len(x.headers[i])} \cup {Len(Str(x.rows[r][i])) : r \in 1..Len(x.rows)}
    IN  CHOOSE m \in lens : \A n \in lens : n <= m

RECURSIVE WidthsBefore(_, _)
\* the widths of the columns before column i, added up
WidthsBefore(x, i) == IF i = 1 THEN 0 ELSE WidthsBefore(x, i - 1) + StatedWidth(x, i - 1)

\* where column i starts in a line
Offset(x, i) == WidthsBefore(x, i) + 3 * (i - 1)

TotalLength(x) == WidthsBefore(x, Len(x.headers) + 1) + 3 * (Len(x.headers) - 1)

\* the line shows text in column i, padded with blanks to the column's width
Shows(x, line, i, text) ==
    /\ SubSeq(line, Offset(x, i) + 1, Offset(x, i) + Len(text)) = text
    /\ \A j \in (Offset(x, i) + Len(text) + 1)..(Offset(x, i) + StatedWidth(x, i)) :
          line[j] = " "

\* the text is 2 + rows lines of the stated length: the header, the separator,
\* then the rows in input order, every column at its place in every line
Aligned(x, text) ==
    LET lines == Split(text)
        n == Len(x.headers)
    IN  /\ Len(lines) = 2 + Len(x.rows)
        /\ \A l \in 1..Len(lines) : Len(lines[l]) = TotalLength(x)
        /\ \A i \in 1..n : Shows(x, lines[1], i, x.headers[i])
        /\ \A i \in 1..n : \A j \in (Offset(x, i) + 1)..(Offset(x, i) + StatedWidth(x, i)) :
              lines[2][j] = "-"
        /\ \A r \in 1..Len(x.rows) : \A i \in 1..n :
              Shows(x, lines[2 + r], i, Str(x.rows[r][i]))

\* no header and no cell holds a line break
NoLineBreak(x) ==
    /\ \A i \in 1..Len(x.headers) : \A j \in 1..Len(x.headers[i]) : x.headers[i][j] # "\n"
    /\ \A r \in 1..Len(x.rows) : \A i \in 1..Len(x.rows[r]) :
          \A j \in 1..Len(Str(x.rows[r][i])) : Str(x.rows[r][i])[j] # "\n"

\* C18 as stated: for every table of n columns the output is aligned.
C18_Stated == res.done => Aligned(arg, res.val)

\* C18: for a table of at least one column with no line break in a header or a
\* cell, the output is 2 + rows lines (header, separator, rows in input order),
\* every line as long as the widths plus 3 per column gap, and every column as
\* wide as its longest header or cell.
C18_Aligned ==
    (res.done /\ Len(arg.headers) >= 1 /\ NoLineBreak(arg)) => Aligned(arg, res.val)

\* a table of two columns and two rows: one column as wide as its header, the
\* other as wide as a cell
C18_Witness ==
    /\ res.done
    /\ NoLineBreak(arg)
    /\ Len(arg.headers) = 2
    /\ Len(arg.rows) = 2
    /\ StatedWidth(arg, 1) > Len(arg.headers[1])
    /\ StatedWidth(arg, 2) > Len(Str(arg.rows[1][2]))

(***************************************************************************)
(* One session.                                                            *)
(***************************************************************************)
\* C19: a run has at most one session and no retry: the session is opened only
\* by the connect at the start, a connect that fails ends main with the error,
\* a session that closes ends main, a timeout notice is written only while the
\* session is open, and nothing happens once main has ended.
C19_OneSession ==
    [][ /\ ~Terminated
        /\ ws' # ws =>
              \/ ws = "none" /\ ws' = "open" /\ pc = "connect"
              \/ ws = "open" /\ ws' = "closed" /\ Terminated'
        /\ (pc = "connect" /\ pc' # "connect" /\ ws' # "open") =>
              (pc' = "error" /\ ws' = "none")
        /\ TimeoutStep => (ws = "open" /\ ws' = "open") ]_vars

\* the session was lost while the loop was waiting again after a timeout notice
C19_Witness ==
    /\ pc = "error"
    /\ ws = "closed"
    /\ ntimeouts = 1
    /\ nrecv = 0
    /\ Len(sent) = 2

====
